---- MODULE Spec2Model ----
(***************************************************************************)
(* Model of git-ai's GitLab CI context resolver                            *)
(* (src/ci/gitlab.rs, get_gitlab_ci_context), followed by the added-line   *)
(* walk (tests/diff_comparison.rs, SpecWalk) and the clone hook            *)
(* (src/commands/hooks/clone_hooks.rs, SpecHook and SpecDerive).           *)
(*                                                                         *)
(* One behaviour is a sequence of invocations of get_gitlab_ci_context in  *)
(* one working directory.  Each invocation walks through the function's    *)
(* statements in program order; every `?` / early `return` is a transition *)
(* to pc = "done".  The GitLab API, the git remote and the local file      *)
(* system are the environment: what the API and the remote answer is       *)
(* chosen freely the first time they are asked and stays the same for the  *)
(* later invocations of the behaviour (one provider state); the caller may *)
(* discard the cloned working copy between invocations.                    *)
(***************************************************************************)
EXTENDS Integers, Sequences, FiniteSets, TLC

(***************************************************************************)
(* Bounds of the model.                                                    *)
(***************************************************************************)
MaxMRs == 2      \* longest merge-request list the API returns
MaxIid == 2      \* merge requests carry iid 1..MaxIid
MaxRuns == 2     \* invocations per behaviour

(***************************************************************************)
(* Program constants.                                                      *)
(***************************************************************************)
LookBackMinutes == 15   \* Duration::minutes(15)
RequestTimeout == 30    \* .with_timeout(30)
HttpOk == 200           \* response.status_code != 200

(***************************************************************************)
(* Option<T> is a set with at most one element.                            *)
(***************************************************************************)
None == {}
Some(v) == {v}
IsSome(o) == o # {}
Unwrap(o) == CHOOSE v \in o : TRUE

(***************************************************************************)
(* String helpers of the Rust standard library used by the resolver.       *)
(***************************************************************************)
starts_with(s, p) == Len(s) >= Len(p) /\ SubSeq(s, 1, Len(p)) = p

Tail_from(s, n) == SubSeq(s, n + 1, Len(s))

RECURSIVE trim_start_matches(_, _)
trim_start_matches(s, p) ==
    IF p # "" /\ starts_with(s, p)
    THEN trim_start_matches(Tail_from(s, Len(p)), p)
    ELSE s

RECURSIVE replace(_, _, _)
replace(s, from, to) ==
    IF Len(s) < Len(from) \/ s = "" THEN s
    ELSE IF starts_with(s, from)
         THEN to \o replace(Tail_from(s, Len(from)), from, to)
         ELSE SubSeq(s, 1, 1) \o replace(Tail_from(s, 1), from, to)

(***************************************************************************)
(* The CI environment.                                                     *)
(***************************************************************************)
RequiredVars ==
    <<"CI_API_V4_URL", "CI_PROJECT_ID", "CI_COMMIT_SHA", "CI_SERVER_URL",
      "CI_PROJECT_PATH">>

EnvNames ==
    {RequiredVars[i] : i \in 1..Len(RequiredVars)}
        \cup {"CI_JOB_TOKEN", "GITLAB_TOKEN"}

Shas == {"a", "b"}

Opt(values) == {None} \cup {Some(v) : v \in values}

Environments ==
    [CI_API_V4_URL : Opt({"https://gl.io/api/v4"}),
     CI_PROJECT_ID : Opt({"42"}),
     CI_COMMIT_SHA : Opt({"a"}),
     CI_SERVER_URL : Opt({"https://gl.io", "http://gl.io"}),
     CI_PROJECT_PATH : Opt({"g/p"}),
     CI_JOB_TOKEN : Opt({"jt"}),
     GITLAB_TOKEN : Opt({"pt"})]

(***************************************************************************)
(* GitLabMergeRequest, as deserialized from the API response.  `title` and *)
(* `squash` are only printed and are left out.                             *)
(***************************************************************************)
OptSha == Opt(Shas)

GitLabMergeRequest(i, m, s) ==
    [iid |-> i,
     source_branch |-> "feature-" \o ToString(i),
     target_branch |-> IF i % 2 = 1 THEN "main" ELSE "develop",
     sha |-> "head-" \o ToString(i),
     merge_commit_sha |-> m,
     squash_commit_sha |-> s]

MergeRequests ==
    {GitLabMergeRequest(i, m, s) : i \in 1..MaxIid, m \in OptSha, s \in OptSha}

RECURSIVE ListsUpTo(_)
ListsUpTo(n) ==
    IF n = 0 THEN {<<>>}
    ELSE LET shorter == ListsUpTo(n - 1)
         IN shorter \cup
            {Append(l, r) : l \in {k \in shorter : Len(k) = n - 1},
                            r \in MergeRequests}

\* The API lists every merge request once, the newest first; the model gives
\* a newer merge request the larger iid.
MergeRequestLists ==
    {l \in ListsUpTo(MaxMRs) :
        \A i, j \in 1..Len(l) : i < j => l[i].iid > l[j].iid}


(***************************************************************************)
(* The API's answer to the merge-request query.  `utf8` says whether       *)
(* Response::as_str succeeds on the body; `json` is what serde_json makes  *)
(* of the text, None when it is no Vec<GitLabMergeRequest>.                *)
(***************************************************************************)
Bodies ==
    {[utf8 |-> FALSE, json |-> None], [utf8 |-> TRUE, json |-> None]}
        \cup {[utf8 |-> TRUE, json |-> Some(l)] : l \in MergeRequestLists}

ErrorBodies == {b \in Bodies : b.json = None}

Responses ==
    {[sent |-> FALSE, status_code |-> 0, body |-> [utf8 |-> FALSE, json |-> None]]}
        \cup {[sent |-> TRUE, status_code |-> HttpOk, body |-> b] : b \in Bodies}
        \cup {[sent |-> TRUE, status_code |-> 500, body |-> b] : b \in ErrorBodies}

\* response.as_str().unwrap_or("[]"), then serde_json::from_str
parse_merge_requests(body) ==
    IF body.utf8 THEN body.json ELSE Some(<<>>)

(***************************************************************************)
(* Results of get_gitlab_ci_context.                                       *)
(***************************************************************************)
Pending == [tag |-> "Pending"]
Err(m) == [tag |-> "Err", msg |-> m]
OkNone == [tag |-> "None"]
OkSome(c) == [tag |-> "Some", ctx |-> c]

VARIABLES
    env,        \* the process environment
    now,        \* Utc::now(), in minutes
    fs,         \* directories present in the working directory
    world,      \* what the API, the remote and the clone answer, once asked
    run,        \* number of the current invocation
    pc,         \* position in get_gitlab_ci_context
    frame,      \* the local variables of the current invocation
    result,     \* what the current invocation returned
    net,        \* HTTP requests sent by the current invocation
    procs,      \* git subprocesses run by the current invocation, with their success
    steps,      \* statements executed by the current invocation
    start_fs,   \* fs when the current invocation started
    prev,       \* result and start_fs of the previous invocation
    walk,       \* the added-line walk of tests/diff_comparison.rs
    hook,       \* one call of post_clone_hook
    derive      \* one call of derive_directory_from_url

vars ==
    <<env, now, fs, world, run, pc, frame, result, net, procs, steps,
      start_fs, prev, walk, hook, derive>>

\* the state of the CI resolver, and the state of the other components
ci_vars ==
    <<env, now, fs, world, run, pc, frame, result, net, procs, steps,
      start_fs, prev>>
walk_vars == <<walk>>
hook_vars == <<hook>>
derive_vars == <<derive>>

\* a component that is not running
Idle == [pc |-> "idle"]

NoMR ==
    [iid |-> 0, source_branch |-> "", target_branch |-> "", sha |-> "",
     merge_commit_sha |-> None, squash_commit_sha |-> None]

EmptyFrame ==
    [api_url |-> "", project_id |-> "", commit_sha |-> "", server_url |-> "",
     project_path |-> "", auth_header_name |-> "", auth_token |-> "",
     merge_requests |-> <<>>, mr |-> NoMR, effective_merge_sha |-> "",
     authenticated_url |-> ""]

NoPrev == [result |-> Pending, start_fs |-> {}]

Init ==
    /\ env \in Environments
    /\ now = LookBackMinutes
    /\ fs = {}
    /\ world = [response |-> None, clone |-> None, fetch |-> None, open |-> None]
    /\ run = 1
    /\ pc = "env"
    /\ frame = EmptyFrame
    /\ result = Pending
    /\ net = <<>>
    /\ procs = <<>>
    /\ steps = <<>>
    /\ start_fs = {}
    /\ prev = NoPrev
    /\ walk = Idle
    /\ hook = Idle
    /\ derive = Idle


(***************************************************************************)
(* Pure parts of get_gitlab_ci_context.                                    *)
(***************************************************************************)

\* std::env::var(name): Some(value) when set, None otherwise
env_var(name) == env[name]

\* the first required variable whose read fails, in the order of the reads
first_missing ==
    LET missing == {i \in 1..Len(RequiredVars) : env_var(RequiredVars[i]) = None}
    IN IF missing = {} THEN None
       ELSE Some(RequiredVars[CHOOSE i \in missing : \A j \in missing : i <= j])

select_auth_default ==
    IF IsSome(env_var("CI_JOB_TOKEN"))
    THEN Some(<<"JOB-TOKEN", Unwrap(env_var("CI_JOB_TOKEN"))>>)
    ELSE IF IsSome(env_var("GITLAB_TOKEN"))
         THEN Some(<<"PRIVATE-TOKEN", Unwrap(env_var("GITLAB_TOKEN"))>>)
         ELSE Some(<<"PRIVATE-TOKEN", "">>)

\* (auth_header_name, auth_token): CI_JOB_TOKEN first, GITLAB_TOKEN second
select_auth ==
    IF IsSome(env_var("CI_JOB_TOKEN"))
    THEN Some(<<"JOB-TOKEN", Unwrap(env_var("CI_JOB_TOKEN"))>>)
    ELSE IF IsSome(env_var("GITLAB_TOKEN"))
         THEN Some(<<"PRIVATE-TOKEN", Unwrap(env_var("GITLAB_TOKEN"))>>)
         ELSE None

matches_any_squash(m, commit_sha) ==
    \/ m.merge_commit_sha = Some(commit_sha)
    \/ IsSome(m.squash_commit_sha)

\* the closure of the find: merge_commit_sha or squash_commit_sha is the commit
matches(m, commit_sha) ==
    \/ m.merge_commit_sha = Some(commit_sha)
    \/ m.squash_commit_sha = Some(commit_sha)

RECURSIVE find_last_matching_mr(_, _)
find_last_matching_mr(merge_requests, commit_sha) ==
    IF merge_requests = <<>> THEN None
    ELSE LET later == find_last_matching_mr(Tail(merge_requests), commit_sha)
         IN IF IsSome(later) THEN later
            ELSE IF matches(Head(merge_requests), commit_sha)
                 THEN Some(Head(merge_requests))
                 ELSE None

\* merge_requests.into_iter().find(..): the first element the closure accepts
RECURSIVE find_matching_mr(_, _)
find_matching_mr(merge_requests, commit_sha) ==
    IF merge_requests = <<>> THEN None
    ELSE IF matches(Head(merge_requests), commit_sha)
         THEN Some(Head(merge_requests))
         ELSE find_matching_mr(Tail(merge_requests), commit_sha)

effective_sha_matched_only(m, commit_sha) == commit_sha

effective_sha_head(m, commit_sha) ==
    IF m.squash_commit_sha = Some(commit_sha)
    THEN commit_sha
    ELSE IF IsSome(m.squash_commit_sha)
         THEN Unwrap(m.squash_commit_sha)
         ELSE m.sha

\* effective_merge_sha
effective_sha(m, commit_sha) ==
    IF m.squash_commit_sha = Some(commit_sha)
    THEN commit_sha
    ELSE IF IsSome(m.squash_commit_sha)
         THEN Unwrap(m.squash_commit_sha)
         ELSE commit_sha

clone_dir_per_run == "git-ai-ci-clone-" \o ToString(run)

clone_dir == "git-ai-ci-clone"

scheme_of(server_url) == IF starts_with(server_url, "https") THEN "https" ELSE "http"

host_of(server_url) ==
    trim_start_matches(trim_start_matches(server_url, "https://"), "http://")

authenticate_personal_first(clone_url, server_url) ==
    IF IsSome(env_var("GITLAB_TOKEN"))
    THEN replace(clone_url, server_url,
                 scheme_of(server_url) \o "://oauth2:"
                     \o Unwrap(env_var("GITLAB_TOKEN")) \o "@" \o host_of(server_url))
    ELSE IF IsSome(env_var("CI_JOB_TOKEN"))
         THEN replace(clone_url, server_url,
                      scheme_of(server_url) \o "://gitlab-ci-token:"
                          \o Unwrap(env_var("CI_JOB_TOKEN")) \o "@" \o host_of(server_url))
         ELSE clone_url

\* authenticated_url: the environment is read again for the token
authenticate(clone_url, server_url) ==
    IF IsSome(env_var("CI_JOB_TOKEN"))
    THEN replace(clone_url, server_url,
                 scheme_of(server_url) \o "://gitlab-ci-token:"
                     \o Unwrap(env_var("CI_JOB_TOKEN")) \o "@" \o host_of(server_url))
    ELSE IF IsSome(env_var("GITLAB_TOKEN"))
         THEN replace(clone_url, server_url,
                      scheme_of(server_url) \o "://oauth2:"
                          \o Unwrap(env_var("GITLAB_TOKEN")) \o "@" \o host_of(server_url))
         ELSE clone_url

clone_args(m, url) == <<"clone", "--branch", m.target_branch, url, clone_dir>>

fetch_args(m, url) ==
    <<"-C", clone_dir, "fetch", url,
      "refs/merge-requests/" \o ToString(m.iid) \o "/head:refs/gitlab/mr/"
          \o ToString(m.iid)>>

merge_event_swapped(m, effective_merge_sha) ==
    [merge_commit_sha |-> effective_merge_sha,
     head_ref |-> m.target_branch,
     head_sha |-> m.sha,
     base_ref |-> m.source_branch,
     base_sha |-> ""]

\* CiEvent::Merge { .. }
merge_event(m, effective_merge_sha) ==
    [merge_commit_sha |-> effective_merge_sha,
     head_ref |-> m.source_branch,
     head_sha |-> m.sha,
     base_ref |-> m.target_branch,
     base_sha |-> ""]

try_ignore(ok, next) == next

\* the `?` operator: go on when the call succeeded, return the error otherwise
try(ok, next) == IF ok THEN next ELSE "done"


(***************************************************************************)
(* The git subprocesses and the repository lookup.  exec_git returns an    *)
(* error when git exits non-zero.  git clone refuses a destination that    *)
(* exists and is not empty; otherwise the remote decides.                  *)
(***************************************************************************)
git_clone_ok(remote_ok) == clone_dir \notin fs /\ remote_ok

\* what the environment may answer: anything the first time, the same afterwards
Answers(asked, all) == IF asked = None THEN all ELSE asked

(***************************************************************************)
(* The steps of one invocation.                                            *)
(***************************************************************************)

\* Read the environment and pick the credential.
EnvDiscovery ==
    /\ pc = "env"
    /\ steps' = Append(steps, "env")
    /\ IF IsSome(first_missing)
       THEN /\ pc' = try(FALSE, "query")
            /\ result' = Err(Unwrap(first_missing) \o " environment variable not set")
            /\ UNCHANGED frame
       ELSE IF select_auth = None
            THEN /\ pc' = "done"
                 /\ result' =
                        Err("Neither CI_JOB_TOKEN nor GITLAB_TOKEN environment variable is set")
                 /\ UNCHANGED frame
            ELSE /\ pc' = try(TRUE, "query")
                 /\ frame' =
                        [frame EXCEPT
                            !.api_url = Unwrap(env_var("CI_API_V4_URL")),
                            !.project_id = Unwrap(env_var("CI_PROJECT_ID")),
                            !.commit_sha = Unwrap(env_var("CI_COMMIT_SHA")),
                            !.server_url = Unwrap(env_var("CI_SERVER_URL")),
                            !.project_path = Unwrap(env_var("CI_PROJECT_PATH")),
                            !.auth_header_name = Unwrap(select_auth)[1],
                            !.auth_token = Unwrap(select_auth)[2]]
                 /\ UNCHANGED result
    /\ UNCHANGED <<env, now, fs, world, run, net, procs, start_fs, prev>>
    /\ UNCHANGED <<walk, hook, derive>>

\* The GET request for the recently merged merge requests.
request ==
    [endpoint |-> frame.api_url \o "/projects/" \o frame.project_id \o "/merge_requests",
     state |-> "merged",
     updated_after |-> now - LookBackMinutes,
     header |-> <<frame.auth_header_name, frame.auth_token>>,
     timeout |-> RequestTimeout]

\* Send the query, check the status, parse the body.
CandidateQuery ==
    /\ pc = "query"
    /\ steps' = Append(steps, "query")
    /\ net' = Append(net, request)
    /\ \E r \in Answers(world.response, Responses) :
        /\ world' = [world EXCEPT !.response = Some(r)]
        /\ LET parsed == parse_merge_requests(r.body)
           IN IF ~r.sent
              THEN /\ pc' = try(FALSE, "match")
                   /\ result' = Err("GitLab API request failed")
                   /\ UNCHANGED frame
              ELSE IF r.status_code # HttpOk
                   THEN /\ pc' = "done"
                        /\ result' =
                               Err("GitLab API returned status " \o ToString(r.status_code))
                        /\ UNCHANGED frame
                   ELSE /\ pc' = try(IsSome(parsed), "match")
                        /\ result' =
                               IF IsSome(parsed) THEN result
                               ELSE Err("Failed to parse GitLab API response")
                        /\ frame' =
                               IF IsSome(parsed)
                               THEN [frame EXCEPT !.merge_requests = Unwrap(parsed)]
                               ELSE frame
    /\ UNCHANGED <<env, now, fs, run, procs, start_fs, prev>>
    /\ UNCHANGED <<walk, hook, derive>>

\* Find the merge request of the current commit, or return Ok(None).
Matching ==
    /\ pc = "match"
    /\ steps' = Append(steps, "match")
    /\ LET matching_mr == find_matching_mr(frame.merge_requests, frame.commit_sha)
       IN IF matching_mr = None
          THEN /\ pc' = "done"
               /\ result' = OkNone
               /\ UNCHANGED frame
          ELSE /\ pc' = "squash"
               /\ frame' = [frame EXCEPT !.mr = Unwrap(matching_mr)]
               /\ UNCHANGED result
    /\ UNCHANGED <<env, now, fs, world, run, net, procs, start_fs, prev>>
    /\ UNCHANGED <<walk, hook, derive>>

\* Choose the commit to rewrite authorship to.
SquashDisambiguation ==
    /\ pc = "squash"
    /\ steps' = Append(steps, "squash")
    /\ frame' =
           [frame EXCEPT
               !.effective_merge_sha = effective_sha(frame.mr, frame.commit_sha)]
    /\ pc' = "url"
    /\ UNCHANGED <<env, now, fs, world, run, result, net, procs, start_fs, prev>>
    /\ UNCHANGED <<walk, hook, derive>>

\* Build the clone URL and embed the credential.
AuthenticateUrl ==
    /\ pc = "url"
    /\ steps' = Append(steps, "url")
    /\ LET clone_url == frame.server_url \o "/" \o frame.project_path \o ".git"
       IN frame' =
              [frame EXCEPT
                  !.authenticated_url = authenticate(clone_url, frame.server_url)]
    /\ pc' = "clone"
    /\ UNCHANGED <<env, now, fs, world, run, result, net, procs, start_fs, prev>>
    /\ UNCHANGED <<walk, hook, derive>>

\* exec_git clone --branch <target_branch> <url> <clone_dir>
Clone ==
    /\ pc = "clone"
    /\ steps' = Append(steps, "clone")
    /\ \E remote_ok \in Answers(world.clone, BOOLEAN) :
        /\ procs' =
               Append(procs, [args |-> clone_args(frame.mr, frame.authenticated_url),
                              ok |-> git_clone_ok(remote_ok)])
        /\ world' =
               IF clone_dir \in fs THEN world
               ELSE [world EXCEPT !.clone = Some(remote_ok)]
        /\ fs' = IF git_clone_ok(remote_ok) THEN fs \cup {clone_dir} ELSE fs
        /\ pc' = try(git_clone_ok(remote_ok), "fetch")
        /\ result' = IF git_clone_ok(remote_ok) THEN result ELSE Err("git clone failed")
    /\ UNCHANGED <<env, now, run, frame, net, start_fs, prev>>
    /\ UNCHANGED <<walk, hook, derive>>

\* exec_git -C <clone_dir> fetch <url> refs/merge-requests/<iid>/head:...
Fetch ==
    /\ pc = "fetch"
    /\ steps' = Append(steps, "fetch")
    /\ \E ok \in Answers(world.fetch, BOOLEAN) :
        /\ procs' =
               Append(procs, [args |-> fetch_args(frame.mr, frame.authenticated_url),
                              ok |-> ok])
        /\ world' = [world EXCEPT !.fetch = Some(ok)]
        /\ pc' = try(ok, "open")
        /\ result' = IF ok THEN result ELSE Err("git fetch failed")
    /\ UNCHANGED <<env, now, fs, run, frame, net, start_fs, prev>>
    /\ UNCHANGED <<walk, hook, derive>>

\* find_repository_in_path(&clone_dir)
OpenRepository ==
    /\ pc = "open"
    /\ steps' = Append(steps, "open")
    /\ \E ok \in Answers(world.open, BOOLEAN) :
        /\ world' = [world EXCEPT !.open = Some(ok)]
        /\ pc' = try(ok, "emit")
        /\ result' = IF ok THEN result ELSE Err("repository not found")
    /\ UNCHANGED <<env, now, fs, run, frame, net, procs, start_fs, prev>>
    /\ UNCHANGED <<walk, hook, derive>>

\* Ok(Some(CiContext { repo, event, temp_dir }))
ContextEmission ==
    /\ pc = "emit"
    /\ steps' = Append(steps, "emit")
    /\ result' =
           OkSome([repo |-> clone_dir,
                   event |-> merge_event(frame.mr, frame.effective_merge_sha),
                   temp_dir |-> clone_dir])
    /\ pc' = "done"
    /\ UNCHANGED <<env, now, fs, world, run, frame, net, procs, start_fs, prev>>
    /\ UNCHANGED <<walk, hook, derive>>

(***************************************************************************)
(* The caller.                                                             *)
(***************************************************************************)

\* The caller invokes the resolver again, later, in the same directory.
Invoke ==
    /\ pc = "done"
    /\ run < MaxRuns
    /\ run' = run + 1
    /\ now' = now + 1
    /\ prev' = [result |-> result, start_fs |-> start_fs]
    /\ start_fs' = fs
    /\ pc' = "env"
    /\ frame' = EmptyFrame
    /\ result' = Pending
    /\ net' = <<>>
    /\ procs' = <<>>
    /\ steps' = <<>>
    /\ UNCHANGED <<env, fs, world>>
    /\ UNCHANGED <<walk, hook, derive>>

\* The caller discards the materialized working copy.
Discard ==
    /\ pc = "done"
    /\ fs # {}
    /\ fs' = {}
    /\ UNCHANGED <<env, now, world, run, pc, frame, result, net, procs, steps,
                   start_fs, prev>>
    /\ UNCHANGED <<walk, hook, derive>>

Next ==
    \/ EnvDiscovery
    \/ CandidateQuery
    \/ Matching
    \/ SquashDisambiguation
    \/ AuthenticateUrl
    \/ Clone
    \/ Fetch
    \/ OpenRepository
    \/ ContextEmission
    \/ Invoke
    \/ Discard

Spec == Init /\ [][Next]_vars


(***************************************************************************)
(* Vocabulary of the properties.  These read the environment, the API's    *)
(* answer and the recorded effects, not the resolver's intermediate        *)
(* computations.                                                           *)
(***************************************************************************)
Finished == pc = "done"

Emitted == pc = "done" /\ result.tag = "Some"

EmittedEvent == result.ctx.event

CurrentCommit == Unwrap(env.CI_COMMIT_SHA)

\* the API answered 200 with a body that is a merge-request list
ListReturned ==
    /\ IsSome(world.response)
    /\ Unwrap(world.response).sent
    /\ Unwrap(world.response).status_code = HttpOk
    /\ Unwrap(world.response).body.utf8
    /\ IsSome(Unwrap(world.response).body.json)

ReturnedList == Unwrap(Unwrap(world.response).body.json)

\* positions of the returned records that carry the current commit
MatchingPositions ==
    {i \in 1..Len(ReturnedList) :
        \/ ReturnedList[i].merge_commit_sha = {CurrentCommit}
        \/ ReturnedList[i].squash_commit_sha = {CurrentCommit}}

EarliestMatch ==
    ReturnedList[CHOOSE i \in MatchingPositions : \A j \in MatchingPositions : i <= j]

MissingConfiguration ==
    \/ \E i \in 1..Len(RequiredVars) : env[RequiredVars[i]] = {}
    \/ env.CI_JOB_TOKEN = {} /\ env.GITLAB_TOKEN = {}

ConfigurationErrors ==
    {Err(RequiredVars[i] \o " environment variable not set") : i \in 1..Len(RequiredVars)}
        \cup {Err("Neither CI_JOB_TOKEN nor GITLAB_TOKEN environment variable is set")}

MergeRequestRef(m) == "refs/merge-requests/" \o ToString(m.iid) \o "/head"

(***************************************************************************)
(* C1: when the matched record has merge_commit_sha = X and               *)
(* squash_commit_sha = Y, Y # X, and the current commit is X, the emitted *)
(* event's merge_commit_sha is Y.                                          *)
(***************************************************************************)
C1_SquashPreferred ==
    Emitted =>
        \A X \in Shas, Y \in Shas :
            ( /\ X # Y
              /\ frame.mr.merge_commit_sha = {X}
              /\ frame.mr.squash_commit_sha = {Y}
              /\ CurrentCommit = X )
            => EmittedEvent.merge_commit_sha = Y

C1_Witness ==
    /\ Emitted
    /\ frame.mr.merge_commit_sha = {CurrentCommit}
    /\ IsSome(frame.mr.squash_commit_sha)
    /\ frame.mr.squash_commit_sha # {CurrentCommit}

(***************************************************************************)
(* C2: when the returned list (possibly empty) has no record carrying the  *)
(* current commit, the resolver returns Ok(None) and runs neither the      *)
(* clone nor the fetch.                                                    *)
(***************************************************************************)
C2_NoMatchIsNoContext ==
    (ListReturned /\ MatchingPositions = {}) =>
        /\ procs = <<>>
        /\ Finished => result = OkNone

C2_Witness ==
    /\ ListReturned
    /\ ReturnedList # <<>>
    /\ MatchingPositions = {}
    /\ Finished
    /\ result = OkNone

(***************************************************************************)
(* C3: with a required variable missing, or with neither token, the        *)
(* resolver ends with a configuration error and sends no request and runs  *)
(* no subprocess.                                                          *)
(***************************************************************************)
C3_MissingConfigurationFails ==
    MissingConfiguration =>
        /\ net = <<>>
        /\ procs = <<>>
        /\ Finished => result \in ConfigurationErrors

C3_Witness ==
    /\ MissingConfiguration
    /\ Finished
    /\ env.CI_JOB_TOKEN = {} /\ env.GITLAB_TOKEN = {}
    /\ \A i \in 1..Len(RequiredVars) : env[RequiredVars[i]] # {}

(***************************************************************************)
(* C4: every field of the emitted context, the cloned branch and the      *)
(* fetched merge-request ref come from the earliest returned record that   *)
(* carries the current commit.                                             *)
(***************************************************************************)
C4_FirstMatchWins ==
    Emitted =>
        /\ ListReturned
        /\ MatchingPositions # {}
        /\ EmittedEvent.head_ref = EarliestMatch.source_branch
        /\ EmittedEvent.head_sha = EarliestMatch.sha
        /\ EmittedEvent.base_ref = EarliestMatch.target_branch
        /\ EmittedEvent.merge_commit_sha \in
               {CurrentCommit} \cup EarliestMatch.squash_commit_sha
        /\ procs[1].args[3] = EarliestMatch.target_branch
        /\ starts_with(procs[2].args[5], MergeRequestRef(EarliestMatch) \o ":")

C4_Witness ==
    /\ Emitted
    /\ Cardinality(MatchingPositions) >= 2

(***************************************************************************)
(* C5: when the current commit is the matched record's squash_commit_sha, *)
(* or the record has none, the effective target is the current commit;     *)
(* the effective target is always the current commit or the matched        *)
(* record's squash_commit_sha.                                             *)
(***************************************************************************)
C5_EffectiveTarget ==
    Emitted =>
        /\ ( \/ EarliestMatch.squash_commit_sha = {CurrentCommit}
             \/ EarliestMatch.squash_commit_sha = {} )
           => EmittedEvent.merge_commit_sha = CurrentCommit
        /\ \/ EmittedEvent.merge_commit_sha = CurrentCommit
           \/ {EmittedEvent.merge_commit_sha} = EarliestMatch.squash_commit_sha

C5_Witness ==
    /\ Emitted
    /\ EarliestMatch.squash_commit_sha = {}
    /\ \E i \in 1..Len(ReturnedList) :
           /\ ReturnedList[i] # EarliestMatch
           /\ IsSome(ReturnedList[i].squash_commit_sha)
           /\ ReturnedList[i].squash_commit_sha # {CurrentCommit}


ProgramOrder ==
    <<"env", "query", "match", "squash", "url", "clone", "fetch", "open", "emit">>

\* the current invocation failed at the named step and went no further
FailedAt(step) ==
    /\ Finished
    /\ result.tag = "Err"
    /\ steps # <<>>
    /\ steps[Len(steps)] = step

Queried == Len(steps) >= 2

SubprocessesInOrder ==
    /\ Len(procs) <= 2
    /\ Len(procs) >= 1 => procs[1].args[1] = "clone"
    /\ Len(procs) = 2 => procs[1].ok /\ procs[2].args[3] = "fetch"
    /\ procs # <<>> => Len(net) = 1

(***************************************************************************)
(* C6: the steps run in program order, and a failed request, a non-200     *)
(* status, an unparsable body, a failed clone, a failed fetch or a failed  *)
(* repository lookup ends the invocation with an error at that step: no    *)
(* later step runs, no step runs twice, no context is returned.            *)
(***************************************************************************)
C6_FailFast ==
    /\ steps = SubSeq(ProgramOrder, 1, Len(steps))
    /\ (Queried /\ ~Unwrap(world.response).sent) => FailedAt("query")
    /\ (Queried /\ Unwrap(world.response).status_code # HttpOk) => FailedAt("query")
    /\ (Queried /\ ~ListReturned) => FailedAt("query")
    /\ (Len(procs) >= 1 /\ ~procs[1].ok) => FailedAt("clone")
    /\ (Len(procs) >= 2 /\ ~procs[2].ok) => FailedAt("fetch")
    /\ (Len(steps) >= 8 /\ world.open = {FALSE}) => FailedAt("open")

(***************************************************************************)
(* C7 as stated: every invocation sends exactly one request and runs at    *)
(* most two subprocesses, clone then fetch, the fetch only after a         *)
(* successful clone.                                                       *)
(***************************************************************************)
C7_ExactlyOneRequest ==
    /\ Finished => Len(net) = 1
    /\ SubprocessesInOrder

(***************************************************************************)
(* C7 amended: every invocation sends at most one request, exactly one     *)
(* when environment discovery succeeds and none when it fails, and runs at *)
(* most two subprocesses, clone then fetch, after the request, the fetch   *)
(* only after a successful clone.                                          *)
(***************************************************************************)
C7_AtMostOneRequest ==
    /\ Len(net) <= 1
    /\ (Finished /\ ~MissingConfiguration) => Len(net) = 1
    /\ MissingConfiguration => Len(net) = 0
    /\ SubprocessesInOrder

C7_Witness ==
    /\ Finished
    /\ Len(net) = 1
    /\ Len(procs) = 2
    /\ ~procs[2].ok

(***************************************************************************)
(* C8 as stated: when an invocation returned a context, the next           *)
(* invocation, with the same environment, the same API response and in the *)
(* same working directory, returns the identical context.                  *)
(***************************************************************************)
C8_SecondRunSameResult ==
    (run > 1 /\ Finished /\ prev.result.tag = "Some") => result = prev.result

(***************************************************************************)
(* C8 amended: a second invocation with the same environment, the same API *)
(* response and the same remote returns what the first returned when the   *)
(* working directory is in the same state at the start of both, that is,   *)
(* when the clone directory the first one left has been discarded.         *)
(***************************************************************************)
C8_SameStartSameResult ==
    (run > 1 /\ Finished /\ start_fs = prev.start_fs) => result = prev.result

C8_Witness ==
    /\ run > 1
    /\ Emitted
    /\ start_fs = prev.start_fs
    /\ prev.result.tag = "Some"

(***************************************************************************)
(* C9: with a job token set (whether or not a personal token is set) the   *)
(* request carries JOB-TOKEN with the job token and the clone and fetch    *)
(* URLs carry gitlab-ci-token with the job token; with only a personal     *)
(* token the request carries PRIVATE-TOKEN and the URLs carry oauth2, both *)
(* with the personal token.                                                *)
(***************************************************************************)
CredentialUsed(header_name, username, token) ==
    /\ \A i \in 1..Len(net) : net[i].header = <<header_name, token>>
    /\ \A i \in 1..Len(procs) :
           \E scheme \in {"https", "http"} :
               starts_with(procs[i].args[4],
                           scheme \o "://" \o username \o ":" \o token \o "@")

C9_OneCredentialKind ==
    /\ env.CI_JOB_TOKEN # {} =>
           CredentialUsed("JOB-TOKEN", "gitlab-ci-token", Unwrap(env.CI_JOB_TOKEN))
    /\ (env.CI_JOB_TOKEN = {} /\ env.GITLAB_TOKEN # {}) =>
           CredentialUsed("PRIVATE-TOKEN", "oauth2", Unwrap(env.GITLAB_TOKEN))

C9_Witness ==
    /\ env.CI_JOB_TOKEN # {}
    /\ env.GITLAB_TOKEN # {}
    /\ Len(net) = 1
    /\ Len(procs) = 2

(***************************************************************************)
(* C10: the emitted event has head_ref = source_branch, head_sha = sha and *)
(* base_ref = target_branch of the matched record, base_ref is the branch  *)
(* that was cloned, base_sha is empty, and the fetch asked for             *)
(* refs/merge-requests/{iid}/head of that record.                          *)
(***************************************************************************)
C10_EventFields ==
    Emitted =>
        /\ EmittedEvent.head_ref = frame.mr.source_branch
        /\ EmittedEvent.head_sha = frame.mr.sha
        /\ EmittedEvent.base_ref = frame.mr.target_branch
        /\ EmittedEvent.base_ref = procs[1].args[3]
        /\ EmittedEvent.base_sha = ""
        /\ procs[2].args[5] =
               MergeRequestRef(frame.mr) \o ":refs/gitlab/mr/" \o ToString(frame.mr.iid)

C10_Witness ==
    /\ Emitted
    /\ frame.mr.iid > 0
    /\ EmittedEvent.head_ref # EmittedEvent.base_ref


(***************************************************************************)
(* The added-line walk of tests/diff_comparison.rs: the two texts are      *)
(* split into lines, the diff library answers with a shortest list of      *)
(* changes, and the walk turns the changes into line numbers of the new    *)
(* text.                                                                   *)
(***************************************************************************)
MaxTextLen == 3

Letters == {"A", "B", "\n"}

RECURSIVE TextsOfLen(_)
TextsOfLen(n) ==
    IF n = 0 THEN {""}
    ELSE {t \o c : t \in TextsOfLen(n - 1), c \in Letters}

SmallTexts == UNION {TextsOfLen(n) : n \in 0..MaxTextLen}

\* the texts of test_compare_diff_algorithms_blank_lines
initial == "Line 1\nLine 2\nLine 3"
modified == "Line 1\n\nLine 2\n\nLine 3\n\nNew Line"

\* a revision that inserts one line in the middle and one at the end
ShiftOld == "A\nB\nC"
ShiftOldTerminated == "A\nB\nC\n"
ShiftNew == "A\nX\nB\nC\nD"

TextPairs ==
    (SmallTexts \X SmallTexts)
        \cup {<<initial, modified>>, <<ShiftOld, ShiftNew>>,
              <<ShiftOldTerminated, ShiftNew>>}

\* the lines of a text, each with its terminator; a last line without
\* terminator is a line of its own
RECURSIVE split_lines(_)
split_lines(text) ==
    IF text = "" THEN <<>>
    ELSE LET ends == {k \in 1..Len(text) : SubSeq(text, k, k) = "\n"}
         IN  IF ends = {} THEN <<text>>
             ELSE LET k == CHOOSE e \in ends : \A f \in ends : e <= f
                  IN  <<SubSeq(text, 1, k)>>
                          \o split_lines(SubSeq(text, k + 1, Len(text)))

\* every shortest list of changes that turns old into new; the library
\* answers with one of them
RECURSIVE iter_all_changes(_, _)
iter_all_changes(old, new) ==
    IF old = <<>> THEN {[k \in 1..Len(new) |-> "Insert"]}
    ELSE IF new = <<>> THEN {[k \in 1..Len(old) |-> "Delete"]}
    ELSE LET all ==
                 (IF Head(old) = Head(new)
                  THEN {<<"Equal">> \o s :
                            s \in iter_all_changes(Tail(old), Tail(new))}
                  ELSE {})
                 \cup {<<"Delete">> \o s : s \in iter_all_changes(Tail(old), new)}
                 \cup {<<"Insert">> \o s : s \in iter_all_changes(old, Tail(new))}
         IN  {s \in all : \A t \in all : Len(s) <= Len(t)}

NewWalk(a, b) ==
    [pc |-> "diff", initial_content |-> a, new_content |-> b,
     changes |-> <<>>, seen |-> 0, current_new_line |-> 0,
     textdiff_added |-> <<>>]

\* the CI resolver is not running
CiNotRunning ==
    /\ env = [n \in EnvNames |-> None]
    /\ now = 0
    /\ fs = {}
    /\ world = [response |-> None, clone |-> None, fetch |-> None, open |-> None]
    /\ run = 0
    /\ pc = "idle"
    /\ frame = EmptyFrame
    /\ result = Pending
    /\ net = <<>>
    /\ procs = <<>>
    /\ steps = <<>>
    /\ start_fs = {}
    /\ prev = NoPrev

InitWalk ==
    /\ CiNotRunning
    /\ hook = Idle
    /\ derive = Idle
    /\ \E p \in TextPairs : walk = NewWalk(p[1], p[2])

walk_change_delete_advances(tag, w) ==
    CASE tag = "Delete" -> [w EXCEPT !.current_new_line = @ + 1]
      [] tag = "Insert" ->
            [w EXCEPT !.textdiff_added = Append(@, w.current_new_line),
                      !.current_new_line = @ + 1]
      [] tag = "Equal" -> [w EXCEPT !.current_new_line = @ + 1]

walk_change_equal_records(tag, w) ==
    CASE tag = "Delete" -> w
      [] tag \in {"Insert", "Equal"} ->
            [w EXCEPT !.textdiff_added = Append(@, w.current_new_line),
                      !.current_new_line = @ + 1]

walk_change_insert_keeps_cursor(tag, w) ==
    CASE tag = "Delete" -> w
      [] tag = "Insert" ->
            [w EXCEPT !.textdiff_added = Append(@, w.current_new_line)]
      [] tag = "Equal" -> [w EXCEPT !.current_new_line = @ + 1]

walk_change_insert_records_next(tag, w) ==
    CASE tag = "Delete" -> w
      [] tag = "Insert" ->
            [w EXCEPT !.textdiff_added = Append(@, w.current_new_line + 1),
                      !.current_new_line = @ + 1]
      [] tag = "Equal" -> [w EXCEPT !.current_new_line = @ + 1]

walk_change_equal_keeps_cursor(tag, w) ==
    CASE tag = "Delete" -> w
      [] tag = "Insert" ->
            [w EXCEPT !.textdiff_added = Append(@, w.current_new_line),
                      !.current_new_line = @ + 1]
      [] tag = "Equal" -> w

\* match change.tag()
walk_change(tag, w) ==
    CASE tag = "Delete" -> w
      [] tag = "Insert" ->
            [w EXCEPT !.textdiff_added = Append(@, w.current_new_line),
                      !.current_new_line = @ + 1]
      [] tag = "Equal" -> [w EXCEPT !.current_new_line = @ + 1]

\* TextDiff::from_lines, and the walk's initial cursor
FromLines ==
    /\ walk.pc = "diff"
    /\ \E s \in iter_all_changes(split_lines(walk.initial_content),
                                 split_lines(walk.new_content)) :
          walk' = [walk EXCEPT !.pc = "walk", !.changes = s,
                               !.current_new_line = 1]
    /\ UNCHANGED <<ci_vars, hook, derive>>

\* one turn of the loop over the changes
NextChange ==
    /\ walk.pc = "walk"
    /\ walk.seen < Len(walk.changes)
    /\ walk' = [walk_change(walk.changes[walk.seen + 1], walk)
                    EXCEPT !.seen = @ + 1]
    /\ UNCHANGED <<ci_vars, hook, derive>>

\* the loop is over
EndOfChanges ==
    /\ walk.pc = "walk"
    /\ walk.seen = Len(walk.changes)
    /\ walk' = [walk EXCEPT !.pc = "done"]
    /\ UNCHANGED <<ci_vars, hook, derive>>

NextWalk ==
    \/ FromLines
    \/ NextChange
    \/ EndOfChanges

SpecWalk == InitWalk /\ [][NextWalk]_vars

\* vocabulary of the walk's properties
WalkStarted == walk.pc \in {"walk", "done"}
WalkDone == walk.pc = "done"
AddedLines == {walk.textdiff_added[k] : k \in 1..Len(walk.textdiff_added)}
lineCount(text) == Len(split_lines(text))
Seen(tags) == {k \in 1..walk.seen : walk.changes[k] \in tags}


\* C11: every recorded line number is a line of the new text, between 1 and
\* the number of its lines, and no line number is recorded twice.
C11_AddedLinesInRange ==
    WalkStarted =>
        /\ \A k \in 1..Len(walk.textdiff_added) :
              walk.textdiff_added[k] \in 1..lineCount(walk.new_content)
        /\ \A j, k \in 1..Len(walk.textdiff_added) :
              j # k => walk.textdiff_added[j] # walk.textdiff_added[k]

C11_Witness ==
    /\ WalkDone
    /\ Len(walk.textdiff_added) >= 2
    /\ \E k \in 1..Len(walk.changes) : walk.changes[k] = "Delete"
    /\ \E k \in 1..Len(walk.changes) : walk.changes[k] = "Equal"

\* C12: a text compared with itself has no added line.
C12_SameTextNothingAdded ==
    (WalkDone /\ walk.initial_content = walk.new_content) => AddedLines = {}

C12_Witness ==
    /\ WalkDone
    /\ walk.initial_content = walk.new_content
    /\ lineCount(walk.new_content) >= 2

\* C13: against the empty text, every line of the new text is added.
C13_EmptyOldAllAdded ==
    (WalkDone /\ walk.initial_content = "")
        => AddedLines = 1..lineCount(walk.new_content)

C13_Witness ==
    /\ WalkDone
    /\ walk.initial_content = ""
    /\ lineCount(walk.new_content) >= 2

\* C14 as stated: from "A\nB\nC" to "A\nX\nB\nC\nD" exactly the lines 2 and
\* 5 are added.
C14_OnlyInsertedLines ==
    (WalkDone /\ walk.initial_content = ShiftOld /\ walk.new_content = ShiftNew)
        => AddedLines = {2, 5}

\* C14, amended: from "A\nB\nC" to "A\nX\nB\nC\nD" exactly the lines 2, 4
\* and 5 are added: the old last line "C" has no terminator and the new line
\* "C\n" has one, so line 4 is added with X and D, while B, which only moved,
\* is not; when the old text ends with a terminator the added lines are
\* exactly 2 and 5.
C14_InsertedAndTerminatedLines ==
    /\ (WalkDone /\ walk.initial_content = ShiftOld
                 /\ walk.new_content = ShiftNew)
           => AddedLines = {2, 4, 5}
    /\ (WalkDone /\ walk.initial_content = ShiftOldTerminated
                 /\ walk.new_content = ShiftNew)
           => AddedLines = {2, 5}

C14_Witness ==
    /\ WalkDone
    /\ walk.initial_content = ShiftOld
    /\ walk.new_content = ShiftNew
    /\ walk.changes[2] = "Insert"

\* C16: the cursor starts at 1; a deleted line changes neither the cursor nor
\* the recorded lines, an equal line moves the cursor by one, an inserted
\* line records the cursor and then moves it by one.  So the cursor is one
\* more than the equal and inserted lines seen, each inserted line is
\* recorded under the number of equal and inserted lines up to it, the walk
\* ends with the cursor one past the last line of the new text, and the
\* number of recorded lines is the number of inserted lines, which is at
\* least the number of lines the new text has more than the old one.
C16_CursorWalk ==
    /\ walk.pc = "walk" /\ walk.seen = 0
           => walk.current_new_line = 1 /\ walk.textdiff_added = <<>>
    /\ WalkStarted =>
           /\ walk.current_new_line
                  = 1 + Cardinality(Seen({"Equal", "Insert"}))
           /\ Len(walk.textdiff_added) = Cardinality(Seen({"Insert"}))
           /\ \A k \in Seen({"Insert"}) :
                 walk.textdiff_added[Cardinality({j \in Seen({"Insert"}) : j <= k})]
                     = Cardinality({j \in Seen({"Equal", "Insert"}) : j <= k})
    /\ WalkDone =>
           /\ walk.current_new_line = lineCount(walk.new_content) + 1
           /\ Len(walk.textdiff_added)
                  >= lineCount(walk.new_content) - lineCount(walk.initial_content)
           /\ lineCount(walk.new_content) > lineCount(walk.initial_content)
                  => walk.textdiff_added # <<>>

C16_Witness ==
    /\ WalkDone
    /\ Seen({"Delete"}) # {}
    /\ Seen({"Equal"}) # {}
    /\ Cardinality(Seen({"Insert"})) >= 2
    /\ lineCount(walk.new_content) > lineCount(walk.initial_content)


(***************************************************************************)
(* The clone hook (commands/hooks/clone_hooks.rs).                         *)
(***************************************************************************)
MaxArgs == 3
MaxUrlParts == 3

ends_with(s, p) ==
    Len(s) >= Len(p) /\ SubSeq(s, Len(s) - Len(p) + 1, Len(s)) = p

contains(s, c) == \E k \in 1..Len(s) : SubSeq(s, k, k) = c

RECURSIVE trim_end_matches(_, _)
trim_end_matches(s, c) ==
    IF s # "" /\ ends_with(s, c)
    THEN trim_end_matches(SubSeq(s, 1, Len(s) - Len(c)), c)
    ELSE s

\* the byte index (from 0) of the last occurrence of the character c
rfind(s, c) ==
    LET at == {k \in 1..Len(s) : SubSeq(s, k, k) = c}
    IN  IF at = {} THEN None
        ELSE Some((CHOOSE k \in at : \A j \in at : j <= k) - 1)

derive_directory_from_url_keep_suffix(url_arg) ==
    LET url == trim_end_matches(url_arg, "/")
        last_component ==
            IF IsSome(rfind(url, "/"))
            THEN Tail_from(url, Unwrap(rfind(url, "/")) + 1)
            ELSE IF IsSome(rfind(url, ":"))
                 THEN Tail_from(url, Unwrap(rfind(url, ":")) + 1)
                 ELSE url
    IN  IF last_component = "" THEN None ELSE Some(last_component)

derive_directory_from_url(url_arg) ==
    LET url == trim_end_matches(url_arg, "/")
        last_component ==
            IF IsSome(rfind(url, "/"))
            THEN Tail_from(url, Unwrap(rfind(url, "/")) + 1)
            ELSE IF IsSome(rfind(url, ":"))
                 THEN Tail_from(url, Unwrap(rfind(url, ":")) + 1)
                 ELSE url
    IN  IF last_component = "" THEN None
        ELSE LET dir_name ==
                     IF ends_with(last_component, ".git")
                     THEN SubSeq(last_component, 1, Len(last_component) - 4)
                     ELSE last_component
             IN  IF dir_name = "" THEN None ELSE Some(dir_name)

LongOptionsWithValue ==
    {"--branch", "--config", "--depth", "--origin", "--reference",
     "--reference-if-able", "--separate-git-dir", "--shallow-exclude",
     "--shallow-since", "--template", "--upload-pack", "-u", "--jobs", "-j",
     "--recurse-submodules"}

ShortOptionsWithValue == {"-b", "-c", "-j", "-o", "-u"}

is_option_with_value_never(arg) == FALSE

is_option_with_value(arg) ==
    IF starts_with(arg, "--")
    THEN IF contains(arg, "=") THEN FALSE
         ELSE arg \in LongOptionsWithValue
    ELSE IF starts_with(arg, "-") /\ Len(arg) = 2
         THEN arg \in ShortOptionsWithValue
         ELSE FALSE

\* the loop of extract_clone_target_directory from index i (from 0) on
RECURSIVE positional_args(_, _, _)
positional_args(args, i, after_double_dash) ==
    IF i >= Len(args) THEN <<>>
    ELSE LET arg == args[i + 1]
         IN  IF ~after_double_dash
             THEN IF arg = "--" THEN positional_args(args, i + 1, TRUE)
                  ELSE IF is_option_with_value(arg)
                       THEN positional_args(args, i + 2, after_double_dash)
                       ELSE IF starts_with(arg, "-")
                            THEN positional_args(args, i + 1, after_double_dash)
                            ELSE <<arg>> \o positional_args(args, i + 1,
                                                            after_double_dash)
             ELSE <<arg>> \o positional_args(args, i + 1, after_double_dash)

extract_clone_target_directory(args) ==
    LET positionals == positional_args(args, 0, FALSE)
    IN  IF positionals = <<>> THEN None
        ELSE IF Len(positionals) >= 2
             THEN Some(positionals[2])
             ELSE derive_directory_from_url(positionals[1])

success_always(exit_status) == TRUE

\* ExitStatus::success
success(exit_status) == exit_status = 0


\* arguments of a clone command
ArgTokens ==
    {"--", "-b", "--branch", "--branch=main", "--bare", "h:u/repo.git",
     "my-dir"}

RECURSIVE ArgsOfLen(_)
ArgsOfLen(n) ==
    IF n = 0 THEN {<<>>}
    ELSE {Append(a, t) : a \in ArgsOfLen(n - 1), t \in ArgTokens}

\* the argument lists of test_extract_clone_target_directory
TestArgs ==
    {<<"https://github.com/user/repo.git", "my-dir">>,
     <<"https://github.com/user/repo.git">>,
     <<"-b", "main", "https://github.com/user/repo.git">>,
     <<"-b", "main", "https://github.com/user/repo.git", "my-dir">>,
     <<"--branch=main", "https://github.com/user/repo.git", "my-dir">>}

ArgLists == UNION {ArgsOfLen(n) : n \in 0..MaxArgs} \cup TestArgs

\* exit codes of the clone
ExitStatuses == {0, 1}

NewHook(args, status) ==
    [pc |-> "exit_status", command_args |-> args, exit_status |-> status,
     target_dir |-> None, repository |-> None, fetched |-> <<>>,
     log |-> <<>>]

InitHook ==
    /\ CiNotRunning
    /\ walk = Idle
    /\ derive = Idle
    /\ \E args \in ArgLists, status \in ExitStatuses :
          hook = NewHook(args, status)

\* if !exit_status.success() { return; }
CheckExitStatus ==
    /\ hook.pc = "exit_status"
    /\ hook' = [hook EXCEPT !.pc = IF success(hook.exit_status)
                                   THEN "extract" ELSE "returned"]
    /\ UNCHANGED <<ci_vars, walk, derive>>

\* let target_dir = match extract_clone_target_directory(...)
ExtractTargetDirectory ==
    /\ hook.pc = "extract"
    /\ LET dir == extract_clone_target_directory(hook.command_args)
       IN  hook' = IF IsSome(dir)
                   THEN [hook EXCEPT !.pc = "open", !.target_dir = dir,
                                     !.log = Append(@, "attempting to fetch")]
                   ELSE [hook EXCEPT !.pc = "returned",
                                     !.log = Append(@, "failed to extract target directory")]
    /\ UNCHANGED <<ci_vars, walk, derive>>

\* let repository = match find_repository_in_path(&target_dir)
FindRepository ==
    /\ hook.pc = "open"
    /\ \E ok \in BOOLEAN :
          hook' = IF ok
                  THEN [hook EXCEPT !.pc = "fetch",
                                    !.repository = Some(Unwrap(hook.target_dir))]
                  ELSE [hook EXCEPT !.pc = "returned",
                                    !.log = Append(@, "failed to open cloned repository")]
    /\ UNCHANGED <<ci_vars, walk, derive>>

\* fetch_authorship_notes(&repository, "origin")
FetchAuthorshipNotes ==
    /\ hook.pc = "fetch"
    /\ \E ok \in BOOLEAN :
          hook' = [hook EXCEPT
                      !.pc = "returned",
                      !.fetched = Append(@, "origin"),
                      !.log = Append(@, IF ok THEN "successfully fetched"
                                              ELSE "authorship fetch failed")]
    /\ UNCHANGED <<ci_vars, walk, derive>>

NextHook ==
    \/ CheckExitStatus
    \/ ExtractTargetDirectory
    \/ FindRepository
    \/ FetchAuthorshipNotes

SpecHook == InitHook /\ [][NextHook]_vars

\* the hook is called and runs to its end; the argument lists are one token
\* shorter than ArgLists' longest
InitFairHook ==
    /\ CiNotRunning
    /\ walk = Idle
    /\ derive = Idle
    /\ \E args \in UNION {ArgsOfLen(n) : n \in 0..(MaxArgs - 1)} \cup TestArgs,
          status \in ExitStatuses :
          hook = NewHook(args, status)

FairSpecHook == InitFairHook /\ [][NextHook]_vars /\ WF_vars(NextHook)

\* repository locations
UrlParts == {"repo", "/", ":", ".git", "git"}

RECURSIVE UrlsOfParts(_)
UrlsOfParts(n) ==
    IF n = 0 THEN {""}
    ELSE {u \o q : u \in UrlsOfParts(n - 1), q \in UrlParts}

\* the locations of test_derive_directory_from_url
TestUrls ==
    {"https://github.com/user/repo.git", "https://github.com/user/repo",
     "git@github.com:user/repo.git", "user@host:path/to/repo.git",
     "/local/path/repo.git"}

Urls == UNION {UrlsOfParts(n) : n \in 0..MaxUrlParts} \cup TestUrls

InitDerive ==
    /\ CiNotRunning
    /\ walk = Idle
    /\ hook = Idle
    /\ \E u \in Urls : derive = [pc |-> "call", url |-> u, dir |-> None]

\* one call of derive_directory_from_url
DeriveDirectory ==
    /\ derive.pc = "call"
    /\ derive' = [derive EXCEPT !.pc = "returned",
                                !.dir = derive_directory_from_url(derive.url)]
    /\ UNCHANGED <<ci_vars, walk, hook>>

NextDerive == DeriveDirectory

SpecDerive == InitDerive /\ [][NextDerive]_vars


\* vocabulary of the clone hook's properties
HookReturned == hook.pc = "returned"
CloneSucceeded == hook.exit_status = 0
Extracted == hook.pc \in {"open", "fetch", "returned"} /\ CloneSucceeded
FetchedFrom(remote) == hook.fetched = <<remote>>

\* C17: the hook fetches the authorship notes, from origin and once, only
\* after the clone exited with success, a target directory was extracted and
\* the repository was opened; a hook that returned without all three has not
\* fetched; and the hook always returns, also when the fetch fails.
C17_FetchOnlyAfterOpen ==
    /\ [](hook.fetched # <<>> =>
              /\ CloneSucceeded
              /\ IsSome(hook.target_dir)
              /\ IsSome(hook.repository)
              /\ FetchedFrom("origin"))
    /\ [](HookReturned =>
              (hook.fetched # <<>> <=>
                  /\ CloneSucceeded
                  /\ IsSome(hook.target_dir)
                  /\ IsSome(hook.repository)))
    /\ <>HookReturned

C17_Witness ==
    /\ HookReturned
    /\ FetchedFrom("origin")
    /\ hook.log[Len(hook.log)] = "authorship fetch failed"

\* what each token of a clone command counts as, read from left to right
TokenKinds(args) ==
    LET kind[i \in 1..Len(args)] ==
            IF \E j \in 1..(i - 1) : kind[j] = "separator" THEN "positional"
            ELSE IF i > 1 /\ kind[i - 1] = "option with value" THEN "value"
            ELSE IF args[i] = "--" THEN "separator"
            ELSE IF args[i] \in {"-b", "--branch"} THEN "option with value"
            ELSE IF SubSeq(args[i], 1, 1) = "-" THEN "option"
            ELSE "positional"
    IN  kind

Positionals(args) ==
    {i \in 1..Len(args) : TokenKinds(args)[i] = "positional"}

NthPositional(args, n) ==
    args[CHOOSE i \in Positionals(args) :
            Cardinality({j \in Positionals(args) : j <= i}) = n]

\* C18: the target directory is the second positional argument when there
\* are two or more, the directory derived from the first positional when
\* there is one, and none when there is no positional; options, the value
\* after -b or --branch and --option=value tokens are not positionals, every
\* token after a -- separator is.
C18_TargetDirectory ==
    Extracted =>
        hook.target_dir =
            IF Cardinality(Positionals(hook.command_args)) >= 2
            THEN Some(NthPositional(hook.command_args, 2))
            ELSE IF Cardinality(Positionals(hook.command_args)) = 1
                 THEN derive_directory_from_url(
                          NthPositional(hook.command_args, 1))
                 ELSE None

C18_Witness ==
    /\ Extracted
    /\ hook.target_dir = Some("my-dir")
    /\ \E i \in 1..Len(hook.command_args) :
          TokenKinds(hook.command_args)[i] = "value"
    /\ Cardinality(Positionals(hook.command_args)) = 2

\* the last path component of a location, read off its characters
Char(s, k) == SubSeq(s, k, k)
TrimmedLen(url) ==
    CHOOSE n \in 0..Len(url) :
        /\ \A k \in (n + 1)..Len(url) : Char(url, k) = "/"
        /\ n > 0 => Char(url, n) # "/"
LastComponent(url) ==
    LET n == TrimmedLen(url)
        slashes == {k \in 1..n : Char(url, k) = "/"}
        colons == {k \in 1..n : Char(url, k) = ":"}
        marks == IF slashes # {} THEN slashes ELSE colons
        from == IF marks = {} THEN 1
                ELSE 1 + CHOOSE k \in marks : \A j \in marks : j <= k
    IN  SubSeq(url, from, n)

\* C19: the derived directory is the last path component of the location
\* without its trailing slashes - what follows the last '/', or the last ':'
\* when there is no '/' - with one trailing ".git" removed; there is none
\* exactly when the component is empty or is ".git"; a derived name is not
\* empty and contains no '/'.
C19_DerivedDirectory ==
    derive.pc = "returned" =>
        LET c == LastComponent(derive.url)
            git == Len(c) >= 4 /\ SubSeq(c, Len(c) - 3, Len(c)) = ".git"
        IN  /\ derive.dir = None <=> (c = "" \/ c = ".git")
            /\ derive.dir # None =>
                  /\ Unwrap(derive.dir)
                         = IF git THEN SubSeq(c, 1, Len(c) - 4) ELSE c
                  /\ Unwrap(derive.dir) # ""
                  /\ \A k \in 1..Len(Unwrap(derive.dir)) :
                        Char(Unwrap(derive.dir), k) # "/"

C19_Witness ==
    /\ derive.pc = "returned"
    /\ derive.dir = Some("repo")
    /\ Char(derive.url, Len(derive.url)) = "/"
    /\ LastComponent(derive.url) = "repo.git"
====
